---- MODULE Spec2Model ----
(***************************************************************************)
(* Model of cat-grooming-example.rs: GroomingStateMap, a string-keyed map  *)
(* of serde_json values, and the conversion to_typed that the macro        *)
(* map_to_struct! generates from it to the five-field GroomingRecord.      *)
(***************************************************************************)
EXTENDS Integers, Sequences, FiniteSets, TLC

VARIABLES
    map,    \* GroomingStateMap.0 : a function from the present keys to values
    log,    \* the calls of set made so far, <<key, value>> each, oldest first
    op,     \* the operation that ran last
    ret     \* the value that operation returned

vars == <<map, log, op, ret>>

(***************************************************************************)
(* Bounds of the model.                                                    *)
(***************************************************************************)
MaxSets == 2      \* calls of set in one behaviour
MaxEdits == 2     \* keys on which a hand-built map differs from new()

(***************************************************************************)
(* serde_json::Value.  An integer n is held as the pair hi, lo with        *)
(* n = hi * 2^16 + lo and 0 <= lo < 2^16, so that numbers beyond the       *)
(* 32-bit range are values of the model as they are values of a Number.    *)
(***************************************************************************)
Limb == 2^16

Null == [tag |-> "Null"]
Bool(b) == [tag |-> "Bool", b |-> b]
Number(hi, lo) == [tag |-> "Number", hi |-> hi, lo |-> lo]
Float(whole, tenths) == [tag |-> "Float", whole |-> whole, tenths |-> tenths]
String(s) == [tag |-> "String", s |-> s]
Array(items) == [tag |-> "Array", items |-> items]
Object(fields) == [tag |-> "Object", fields |-> fields]

\* json!(n) for an integer literal n of the 32-bit range
json(n) == Number(n \div Limb, n % Limb)

(***************************************************************************)
(* Result and Option.                                                      *)
(***************************************************************************)
Ok(x) == [tag |-> "Ok", val |-> x]
Err(e) == [tag |-> "Err", err |-> e]
Some(x) == [tag |-> "Some", some |-> x]
None == [tag |-> "None"]
Unit == [tag |-> "Unit"]

(***************************************************************************)
(* The schema the macro is invoked with, in declaration order.             *)
(***************************************************************************)
Schema ==
    << [name |-> "fur_length_cm", type |-> "i32"],
       [name |-> "brush_type", type |-> "String"],
       [name |-> "shedding_score", type |-> "u8"],
       [name |-> "nail_trimmed", type |-> "bool"],
       [name |-> "favorite_spot", type |-> "String"] >>

SchemaKeys == {Schema[i].name : i \in 1..Len(Schema)}

(***************************************************************************)
(* std::collections::HashMap, as the wrapper uses it.                      *)
(***************************************************************************)
get(m, key) == IF key \in DOMAIN m THEN Some(m[key]) ELSE None

insert_if_absent(m, key, value) ==
    IF key \in DOMAIN m THEN m
    ELSE [x \in DOMAIN m \cup {key} |-> IF x = key THEN value ELSE m[x]]

insert(m, key, value) ==
    [x \in DOMAIN m \cup {key} |-> IF x = key THEN value ELSE m[x]]

new_without_spot ==
    insert(insert(insert(insert(<<>>,
        "fur_length_cm", json(2)),
        "brush_type", String("slicker")),
        "shedding_score", json(7)),
        "nail_trimmed", Bool(TRUE))

new ==
    insert(insert(insert(insert(insert(<<>>,
        "fur_length_cm", json(2)),
        "brush_type", String("slicker")),
        "shedding_score", json(7)),
        "nail_trimmed", Bool(TRUE)),
        "favorite_spot", String("chin"))

(***************************************************************************)
(* serde_json::from_value::<T> for the four primitive types of the schema. *)
(* The integer visitors of serde take a Number that holds an integer and   *)
(* check it against the range of T; they take no Float.  String takes only *)
(* a String and bool only a Bool.  The error is serde's diagnostic, kept   *)
(* as <<kind, expected type>>.                                             *)
(***************************************************************************)
InI32(v) == -(2^15) <= v.hi /\ v.hi <= 2^15 - 1
InU8(v) == v.hi = 0 /\ v.lo <= 255

from_value_wrapping(v, T) ==
    CASE T = "i32" ->
            IF v.tag = "Number"
            THEN Ok(((((v.hi % Limb) + 2^15) % Limb) - 2^15) * Limb + v.lo)
            ELSE Err(<<"invalid type", T>>)
      [] T = "u8" ->
            IF v.tag = "Number" THEN Ok(v.lo % 256)
            ELSE Err(<<"invalid type", T>>)
      [] T = "String" ->
            IF v.tag = "String" THEN Ok(v.s) ELSE Err(<<"invalid type", T>>)
      [] T = "bool" ->
            IF v.tag = "Bool" THEN Ok(v.b) ELSE Err(<<"invalid type", T>>)

from_value_truthy(v, T) ==
    CASE T = "i32" ->
            IF v.tag = "Number"
            THEN IF InI32(v) THEN Ok(v.hi * Limb + v.lo)
                 ELSE Err(<<"invalid value", T>>)
            ELSE Err(<<"invalid type", T>>)
      [] T = "u8" ->
            IF v.tag = "Number"
            THEN IF InU8(v) THEN Ok(v.lo) ELSE Err(<<"invalid value", T>>)
            ELSE Err(<<"invalid type", T>>)
      [] T = "String" ->
            IF v.tag = "String" THEN Ok(v.s) ELSE Err(<<"invalid type", T>>)
      [] T = "bool" ->
            IF v.tag = "Bool" THEN Ok(v.b)
            ELSE IF v.tag = "Number" THEN Ok(v.hi # 0 \/ v.lo # 0)
            ELSE Err(<<"invalid type", T>>)

from_value(v, T) ==
    CASE T = "i32" ->
            IF v.tag = "Number"
            THEN IF InI32(v) THEN Ok(v.hi * Limb + v.lo)
                 ELSE Err(<<"invalid value", T>>)
            ELSE Err(<<"invalid type", T>>)
      [] T = "u8" ->
            IF v.tag = "Number"
            THEN IF InU8(v) THEN Ok(v.lo) ELSE Err(<<"invalid value", T>>)
            ELSE Err(<<"invalid type", T>>)
      [] T = "String" ->
            IF v.tag = "String" THEN Ok(v.s) ELSE Err(<<"invalid type", T>>)
      [] T = "bool" ->
            IF v.tag = "Bool" THEN Ok(v.b) ELSE Err(<<"invalid type", T>>)

(***************************************************************************)
(* extract_field::<T>(map, key).  map.get(key).cloned() reads the map      *)
(* through a shared reference; the map it leaves is returned beside the    *)
(* value so that the effect of the whole conversion on the map is stated.  *)
(* format!("Missing {}", key) is <<"Missing", key>> and                    *)
(* format!("Invalid {}: {}", key, e) is <<"Invalid", key, e>>.             *)
(***************************************************************************)
get_removed(m, key) ==
    [val |-> get(m, key), map |-> [x \in DOMAIN m \ {key} |-> m[x]]]

get_cloned(m, key) == [val |-> get(m, key), map |-> m]

default(T) ==
    CASE T = "i32" -> 0 [] T = "u8" -> 0 [] T = "String" -> "" [] T = "bool" -> FALSE

extract_field_or_null(m, key, T) ==
    LET g == get_cloned(m, key)
        v == IF g.val.tag = "None" THEN Null ELSE g.val.some
        r == from_value(v, T)
    IN  [map |-> g.map,
         res |-> IF r.tag = "Ok" THEN r ELSE Err(<<"Invalid", key, r.err>>)]

extract_field_or_default(m, key, T) ==
    LET g == get_cloned(m, key)
    IN  [map |-> g.map,
         res |-> IF g.val.tag = "None" THEN Ok(default(T))
                 ELSE LET r == from_value(g.val.some, T)
                      IN  IF r.tag = "Ok" THEN r
                          ELSE Err(<<"Invalid", key, r.err>>)]

extract_field(m, key, T) ==
    LET g == get_cloned(m, key)
    IN  [map |-> g.map,
         res |-> IF g.val.tag = "None" THEN Err(<<"Missing", key>>)
                 ELSE LET r == from_value(g.val.some, T)
                      IN  IF r.tag = "Ok" THEN r
                          ELSE Err(<<"Invalid", key, r.err>>)]

(***************************************************************************)
(* to_typed, as map_to_struct! expands it: one extract_field per field of  *)
(* the schema, in order, each followed by `?`, then the struct literal.    *)
(***************************************************************************)
RECURSIVE to_typed_from(_, _, _)
to_typed_from(m, i, fields) ==
    IF i > Len(Schema) THEN [map |-> m, res |-> Ok(fields)]
    ELSE LET e == extract_field(m, Schema[i].name, Schema[i].type)
         IN  IF e.res.tag = "Err" THEN [map |-> e.map, res |-> e.res]
             ELSE to_typed_from(e.map, i + 1,
                                fields @@ (Schema[i].name :> e.res.val))

RECURSIVE to_typed_last_error_from(_, _, _, _)
to_typed_last_error_from(m, i, fields, err) ==
    IF i > Len(Schema)
    THEN [map |-> m, res |-> IF err = None THEN Ok(fields) ELSE Err(err.some)]
    ELSE LET e == extract_field(m, Schema[i].name, Schema[i].type)
         IN  IF e.res.tag = "Err"
             THEN to_typed_last_error_from(e.map, i + 1, fields, Some(e.res.err))
             ELSE to_typed_last_error_from(e.map, i + 1,
                      fields @@ (Schema[i].name :> e.res.val), err)

to_typed_last_error(m) == to_typed_last_error_from(m, 1, <<>>, None)

to_typed_deny_unknown(m) ==
    IF DOMAIN m \subseteq SchemaKeys THEN to_typed_from(m, 1, <<>>)
    ELSE [map |-> m, res |-> Err(<<"Unknown">>)]

to_typed(m) == to_typed_from(m, 1, <<>>)

(***************************************************************************)
(* The serde derives.  GroomingStateMap is #[serde(transparent)]: it       *)
(* serializes as its HashMap, a JSON object whose members are the values   *)
(* themselves.  GroomingRecord serializes as an object of its five fields, *)
(* each integer as a Number, and deserializes from an object: members with *)
(* other names are skipped, a member that does not convert or a field with *)
(* no member is an error.  Which member serde names in that error follows  *)
(* the iteration order of the object and is not kept.                      *)
(***************************************************************************)
TypeOf(name) == Schema[CHOOSE i \in 1..Len(Schema) : Schema[i].name = name].type

GroomingStateMap_serialize(m) == Object(m)

GroomingRecord_serialize_text(r) ==
    Object([name \in SchemaKeys |->
        CASE TypeOf(name) = "String" -> String(r[name])
          [] TypeOf(name) = "bool" -> Bool(r[name])
          [] OTHER -> String("number")])

GroomingRecord_serialize(r) ==
    Object([name \in SchemaKeys |->
        CASE TypeOf(name) = "String" -> String(r[name])
          [] TypeOf(name) = "bool" -> Bool(r[name])
          [] OTHER -> json(r[name])])

GroomingRecord_deserialize(v) ==
    IF v.tag # "Object" THEN Err(<<"invalid type", "GroomingRecord">>)
    ELSE LET f == v.fields
             present == SchemaKeys \cap DOMAIN f
         IN  IF \E name \in present : from_value(f[name], TypeOf(name)).tag = "Err"
             THEN Err(<<"invalid member">>)
             ELSE IF present # SchemaKeys THEN Err(<<"missing field">>)
             ELSE Ok([name \in SchemaKeys |-> from_value(f[name], TypeOf(name)).val])

(***************************************************************************)
(* The inputs of the model.                                                *)
(***************************************************************************)
Keys == SchemaKeys \cup {"mood"}

\* the integers at the edges of u8 and of i32, and one value of every
\* other shape
Values ==
    { Number(-(2^15) - 1, Limb - 1), Number(-(2^15), 0), json(-1), json(0),
      json(11), json(255), json(256), Number(2^15 - 1, Limb - 1),
      Number(2^15, 0),
      Float(7, 0), String("high"), Bool(FALSE), Null, Array(<<>>) }

\* the values set is called with
SetValues == {json(11), json(256), String("high"), Bool(FALSE), Null}

\* new() with the keys of D taken out or given the values of f
Absent == [tag |-> "Absent"]
Rebuilt(D, f) ==
    [k \in (DOMAIN new \ D) \cup {x \in D : f[x] # Absent} |->
        IF k \in D THEN f[k] ELSE new[k]]

EditedKeys == {D \in SUBSET Keys : Cardinality(D) <= MaxEdits}

(***************************************************************************)
(* The operations.                                                         *)
(***************************************************************************)
Init ==
    /\ map = new
    /\ log = <<>>
    /\ op = <<"new">>
    /\ ret = Unit

\* GroomingStateMap(m) for a map m built by the caller: the field is pub
InitAny ==
    /\ \E D \in EditedKeys :
           \E f \in [D -> Values \cup {Absent}] : map = Rebuilt(D, f)
    /\ log = <<>>
    /\ op = <<"construct">>
    /\ ret = Unit

Set(key, value) ==
    /\ Len(log) < MaxSets
    /\ map' = insert(map, key, value)
    /\ log' = Append(log, <<key, value>>)
    /\ op' = <<"set", key>>
    /\ ret' = Unit

Get(key) ==
    /\ ret' = get(map, key)
    /\ op' = <<"get", key>>
    /\ UNCHANGED <<map, log>>

ToTyped ==
    /\ ret' = to_typed(map).res
    /\ map' = to_typed(map).map
    /\ op' = <<"to_typed">>
    /\ UNCHANGED log

\* serde_json::to_value(&map) and from_value::<GroomingRecord> of it
SerdeRoundTrip ==
    /\ ret' = GroomingRecord_deserialize(GroomingStateMap_serialize(map))
    /\ op' = <<"from_value">>
    /\ UNCHANGED <<map, log>>

Next ==
    \/ \E key \in Keys, value \in SetValues : Set(key, value)
    \/ \E key \in Keys : Get(key)
    \/ ToTyped
    \/ SerdeRoundTrip

NextAny ==
    \/ \E key \in Keys : Get(key)
    \/ ToTyped
    \/ SerdeRoundTrip

Spec == Init /\ [][Next]_vars

SpecAny == InitAny /\ [][NextAny]_vars

(***************************************************************************)
(* What the claims speak of, stated without the conversion itself.         *)
(***************************************************************************)
Fields == 1..Len(Schema)

\* the JSON shape a declared type is written in
ShapeOf(T) ==
    CASE T \in {"i32", "u8"} -> "Number"
      [] T = "String" -> "String"
      [] T = "bool" -> "Bool"

IsInteger(v) == v.tag = "Number"
Within(v, lowHi, highHi, highLo) ==
    /\ lowHi <= v.hi
    /\ v.hi <= highHi
    /\ v.hi = highHi => v.lo <= highLo

\* v is a value of the declared type T
Fits(v, T) ==
    /\ v.tag = ShapeOf(T)
    /\ T = "i32" => Within(v, -(2^15), 2^15 - 1, Limb - 1)
    /\ T = "u8" => Within(v, 0, 0, 255)

\* the value of the declared type that v denotes
Denoted(v) ==
    CASE v.tag = "Number" -> v.hi * Limb + v.lo
      [] v.tag = "String" -> v.s
      [] v.tag = "Bool" -> v.b

Present(m, i) == Schema[i].name \in DOMAIN m
Sound(m, i) == Present(m, i) /\ Fits(m[Schema[i].name], Schema[i].type)
EarlierSound(m, i) == \A j \in 1..(i - 1) : Sound(m, j)
AllSound(m) == \A i \in Fields : Sound(m, i)

Extracted == op = <<"to_typed">>
Failed(kind, name) == ret.tag = "Err" /\ ret.err[1] = kind /\ ret.err[2] = name

(***************************************************************************)
(* C1: to_typed checks the five fields in declaration order and returns    *)
(* the error of the first one that is missing or does not convert, Missing *)
(* if it is absent and Invalid if it is present, whatever later fields     *)
(* hold; of two missing fields it names the one declared first.            *)
(***************************************************************************)
C1_FirstErrorInDeclarationOrder ==
    Extracted =>
        \A i \in Fields :
            (~Sound(map, i) /\ EarlierSound(map, i)) =>
                Failed(IF Present(map, i) THEN "Invalid" ELSE "Missing",
                       Schema[i].name)

C1_Witness ==
    /\ Extracted
    /\ "brush_type" \notin DOMAIN map
    /\ "nail_trimmed" \notin DOMAIN map
    /\ ret = Err(<<"Missing", "brush_type">>)

(***************************************************************************)
(* C2, as claimed: whenever a schema field is absent from the map,         *)
(* to_typed fails with Missing naming that field, whatever the other four  *)
(* keys hold.                                                              *)
(***************************************************************************)
C2_MissingWhateverTheOthers ==
    Extracted =>
        \A i \in Fields : ~Present(map, i) => Failed("Missing", Schema[i].name)

(***************************************************************************)
(* C2, amended: whenever a schema field is absent from the map, to_typed   *)
(* fails; it fails with Missing naming that field when every field         *)
(* declared before it is present and converts, whatever the fields         *)
(* declared after it hold.                                                 *)
(***************************************************************************)
C2_MissingAfterSoundFields ==
    Extracted =>
        \A i \in Fields :
            ~Present(map, i) =>
                /\ ret.tag = "Err"
                /\ EarlierSound(map, i) => ret = Err(<<"Missing", Schema[i].name>>)

C2_Witness ==
    /\ Extracted
    /\ "brush_type" \notin DOMAIN map
    /\ get(map, "shedding_score") = Some(String("high"))
    /\ ret = Err(<<"Missing", "brush_type">>)

(***************************************************************************)
(* C3, as claimed: whenever a schema field holds a value of a shape other  *)
(* than that of its declared type, to_typed fails with Invalid naming that *)
(* field.                                                                  *)
(***************************************************************************)
Misshapen(m, i) ==
    Present(m, i) /\ m[Schema[i].name].tag # ShapeOf(Schema[i].type)

C3_InvalidForAnyMisshapenField ==
    Extracted =>
        \A i \in Fields : Misshapen(map, i) => Failed("Invalid", Schema[i].name)

(***************************************************************************)
(* C3, amended: whenever a schema field holds a value of a shape other     *)
(* than that of its declared type, to_typed fails; it fails with Invalid   *)
(* naming that field, and serde's invalid-type diagnostic, when every      *)
(* field declared before it is present and converts.                       *)
(***************************************************************************)
C3_InvalidAfterSoundFields ==
    Extracted =>
        \A i \in Fields :
            Misshapen(map, i) =>
                /\ ret.tag = "Err"
                /\ EarlierSound(map, i) =>
                       ret = Err(<<"Invalid", Schema[i].name,
                                   <<"invalid type", Schema[i].type>> >>)

C3_Witness ==
    /\ Extracted
    /\ get(map, "nail_trimmed") = Some(json(0))
    /\ Failed("Invalid", "nail_trimmed")

(***************************************************************************)
(* C4: to_typed returns a record exactly when all five keys are present    *)
(* and each value is of its declared type; the record then has the five    *)
(* fields, each the value stored under its name, and a failed call returns *)
(* an error and no record.                                                 *)
(***************************************************************************)
C4_AllOrNothing ==
    Extracted =>
        /\ ret.tag = "Ok" <=> AllSound(map)
        /\ ret.tag \in {"Ok", "Err"}
        /\ ret.tag = "Err" => DOMAIN ret = {"tag", "err"}
        /\ ret.tag = "Ok" =>
               /\ DOMAIN ret.val = SchemaKeys
               /\ \A name \in SchemaKeys : ret.val[name] = Denoted(map[name])

C4_Witness ==
    /\ Extracted
    /\ ret.tag = "Ok"
    /\ get(map, "fur_length_cm") = Some(Number(-(2^15), 0))
    /\ get(map, "shedding_score") = Some(json(255))

(***************************************************************************)
(* C5: a call of to_typed, successful or not, leaves the map with the keys *)
(* and values it had, and a call that follows another with no set between  *)
(* them returns what the first returned.                                   *)
(***************************************************************************)
C5_ExtractionLeavesTheMap ==
    [][ToTyped => /\ map' = map
                  /\ Extracted => ret' = ret]_vars

C5_Witness ==
    /\ Extracted
    /\ Len(log) > 0
    /\ ret.tag = "Err"
    /\ map = insert(new, log[1][1], log[1][2])

(***************************************************************************)
(* C6: when every schema key holds a value of its declared type, as in the *)
(* map of new(), to_typed succeeds, the serialized map parses as the same  *)
(* GroomingRecord, and that record serialized and parsed again is the same *)
(* record; for new() it is {2, "slicker", 7, true, "chin"}.                *)
(***************************************************************************)
NewRecord ==
    [fur_length_cm |-> 2, brush_type |-> "slicker", shedding_score |-> 7,
     nail_trimmed |-> TRUE, favorite_spot |-> "chin"]

C6_RoundTrip ==
    AllSound(map) =>
        LET typed == to_typed(map).res
            parsed == GroomingRecord_deserialize(GroomingStateMap_serialize(map))
        IN  /\ typed.tag = "Ok"
            /\ parsed = typed
            /\ op = <<"from_value">> => ret = typed
            /\ GroomingRecord_deserialize(GroomingRecord_serialize(typed.val))
                   = Ok(typed.val)
            /\ map = new => typed.val = NewRecord

C6_Witness ==
    /\ op = <<"from_value">>
    /\ map = new
    /\ ret = Ok(NewRecord)

(***************************************************************************)
(* C7: after any calls of set, get(k) returns the value of the most recent *)
(* set on k, or the value new() gave k, or nothing, if k was never set;    *)
(* the map holds that one value for k and nothing for any other key.       *)
(***************************************************************************)
SetsOf(k) == {i \in 1..Len(log) : log[i][1] = k}
MostRecent(k) ==
    IF SetsOf(k) # {}
    THEN Some(log[CHOOSE i \in SetsOf(k) : \A j \in SetsOf(k) : j <= i][2])
    ELSE IF k \in DOMAIN new THEN Some(new[k]) ELSE None

C7_GetReturnsMostRecentSet ==
    /\ \A k \in Keys : get(map, k) = MostRecent(k)
    /\ DOMAIN map \subseteq Keys
    /\ op[1] = "get" => ret = MostRecent(op[2])

C7_Witness ==
    /\ Len(log) = 2
    /\ log[1][1] = log[2][1]
    /\ log[1][2] # log[2][2]
    /\ op = <<"get", log[2][1]>>
    /\ ret = Some(log[2][2])

(***************************************************************************)
(* C8: the conversion of an integer checks the range of the declared type  *)
(* and nothing else.  shedding_score converts for every integer of 0..255, *)
(* to that integer, and is Invalid below 0 and above 255; fur_length_cm    *)
(* converts for every integer of the 32-bit signed range, to that integer, *)
(* and is Invalid outside it.                                              *)
(***************************************************************************)
RangeChecked(i, lowHi, highHi, highLo) ==
    LET name == Schema[i].name
        T == Schema[i].type
    IN  (Present(map, i) /\ IsInteger(map[name])) =>
            LET v == map[name]
                e == extract_field(map, name, T).res
                outOfRange == Err(<<"Invalid", name, <<"invalid value", T>> >>)
            IN  IF Within(v, lowHi, highHi, highLo)
                THEN /\ e = Ok(v.hi * Limb + v.lo)
                     /\ (Extracted /\ ret.tag = "Ok") => ret.val[name] = e.val
                     /\ (Extracted /\ ret.tag = "Err") => ret.err[2] # name
                ELSE /\ e = outOfRange
                     /\ (Extracted /\ EarlierSound(map, i)) => ret = outOfRange

C8_IntegersCheckedAgainstTheirType ==
    /\ RangeChecked(3, 0, 0, 255)
    /\ RangeChecked(1, -(2^15), 2^15 - 1, Limb - 1)

C8_Witness ==
    /\ Extracted
    /\ get(map, "fur_length_cm") = Some(Number(2^15 - 1, Limb - 1))
    /\ get(map, "shedding_score") = Some(json(256))
    /\ ret = Err(<<"Invalid", "shedding_score", <<"invalid value", "u8">> >>)

(***************************************************************************)
(* C9: from new(), whatever set and to_typed calls are made, the five      *)
(* schema keys stay in the map, and to_typed returns a record or an        *)
(* Invalid error, never Missing.                                           *)
(***************************************************************************)
C9_SchemaKeysStay ==
    /\ SchemaKeys \subseteq DOMAIN map
    /\ Extracted => (ret.tag = "Ok" \/ (ret.tag = "Err" /\ ret.err[1] = "Invalid"))

C9_Witness ==
    /\ Extracted
    /\ Len(log) = 2
    /\ log[1][1] \in SchemaKeys
    /\ log[2][1] \in SchemaKeys
    /\ ret.tag = "Err"

(***************************************************************************)
(* C10: what to_typed returns is decided by the values under the five      *)
(* schema keys: every map that agrees with this one on them, whatever it   *)
(* holds under other keys, gives the same record or the same error.        *)
(***************************************************************************)
OnSchemaKeys(m) == [k \in DOMAIN m \cap SchemaKeys |-> m[k]]
AgreeingMaps(m) ==
    {OnSchemaKeys(m)} \cup
    {insert(OnSchemaKeys(m), k, v) : k \in Keys \ SchemaKeys, v \in Values}

C10_OnlySchemaKeysDecide ==
    LET typed == to_typed(map).res
    IN  /\ \A m \in AgreeingMaps(map) : to_typed(m).res = typed
        /\ Extracted => ret = typed

C10_Witness ==
    /\ Extracted
    /\ Len(log) = 2
    /\ log[1][1] = "mood"
    /\ log[2] = <<"mood", Null>>
    /\ log[1][2] # Null
    /\ ret = Ok(NewRecord)

====
